---------------------------- MODULE Spec2Model ----------------------------
(***************************************************************************)
(* Model of app_cost_only.py: the Streamlit construction cost estimator.   *)
(*                                                                         *)
(* The script is re-run on every widget interaction.  A run recomputes     *)
(* current_gfa from the four widgets outside the form; the widgets inside  *)
(* the form "project_input" deliver their values only when the form is     *)
(* submitted, and the run that follows executes the submit handler.        *)
(*                                                                         *)
(* Python numbers are modelled by what they are: int is an integer, float  *)
(* is an IEEE-754 binary64 value with round-to-nearest-even arithmetic.    *)
(* TLC's integers are 32 bits wide, so natural numbers wider than that are *)
(* kept as little-endian sequences of 15-bit limbs.                        *)
(***************************************************************************)
EXTENDS Integers, Sequences, FiniteSets, TLC

(***************************************************************************)
(* F with its parameters bound to the values of the given expressions.     *)
(* TLC may evaluate an operator's argument, or a LET definition, anew at   *)
(* every place it is used; a quantified variable is bound to a value.  An  *)
(* operator below whose argument is costly to compute binds it this way    *)
(* before using it more than once.                                         *)
(***************************************************************************)
With(e, F(_)) == CHOOSE r \in {F(v) : v \in {e}} : TRUE
With2(e1, e2, F(_, _)) == CHOOSE r \in {F(v, w) : v \in {e1}, w \in {e2}} : TRUE

(***************************************************************************)
(* Natural numbers of arbitrary width (limbs, least significant first; no  *)
(* leading zero limb; zero is the empty sequence).                         *)
(***************************************************************************)
LimbBits == 5 * 3
LimbBase == 2 ^ LimbBits

BLimb(a, i) == IF i <= Len(a) THEN a[i] ELSE 0

\* the index of the top non-zero limb, 0 if there is none
BTop(a) ==
    CHOOSE n \in 0..Len(a) : (n = 0 \/ a[n] # 0) /\ \A i \in (n + 1)..Len(a) : a[i] = 0

BStrip(a0) == With(a0, LAMBDA a : SubSeq(a, 1, BTop(a)))

RECURSIVE BFromInt(_)
BFromInt(n) ==
    IF n = 0 THEN <<>> ELSE <<n % LimbBase>> \o BFromInt(n \div LimbBase)

\* the limbs of a + b from limb i up, with carry c into limb i
RECURSIVE BAddFrom(_, _, _, _)
BAddFrom(a, b, i, c) ==
    IF i > Len(a) /\ i > Len(b)
    THEN (IF c = 0 THEN <<>> ELSE <<c>>)
    ELSE <<(BLimb(a, i) + BLimb(b, i) + c) % LimbBase>>
         \o BAddFrom(a, b, i + 1, (BLimb(a, i) + BLimb(b, i) + c) \div LimbBase)

BAdd(a0, b0) == With2(a0, b0, LAMBDA a, b : BAddFrom(a, b, 1, 0))

\* the limbs of a - b from limb i up, with borrow c out of limb i (a >= b)
RECURSIVE BSubFrom(_, _, _, _)
BSubFrom(a, b, i, c) ==
    IF i > Len(a) THEN <<>>
    ELSE IF a[i] - BLimb(b, i) - c < 0
         THEN <<a[i] - BLimb(b, i) - c + LimbBase>> \o BSubFrom(a, b, i + 1, 1)
         ELSE <<a[i] - BLimb(b, i) - c>> \o BSubFrom(a, b, i + 1, 0)

BSub(a0, b0) == With2(a0, b0, LAMBDA a, b : BStrip(BSubFrom(a, b, 1, 0)))

\* -1, 0, 1 as a < b, a = b, a > b
RECURSIVE BCmpFrom(_, _, _)
BCmpFrom(a, b, i) ==
    IF i = 0 THEN 0
    ELSE IF a[i] < b[i] THEN -1
    ELSE IF a[i] > b[i] THEN 1
    ELSE BCmpFrom(a, b, i - 1)

BCmp(a0, b0) ==
    With2(a0, b0, LAMBDA a, b :
        IF Len(a) < Len(b) THEN -1
        ELSE IF Len(a) > Len(b) THEN 1
        ELSE BCmpFrom(a, b, Len(a)))

\* the limbs of a * k from limb i up, with carry c into limb i (k a limb)
RECURSIVE BMulSmallFrom(_, _, _, _)
BMulSmallFrom(a, k, i, c) ==
    IF i > Len(a)
    THEN (IF c = 0 THEN <<>> ELSE <<c>>)
    ELSE <<(a[i] * k + c) % LimbBase>>
         \o BMulSmallFrom(a, k, i + 1, (a[i] * k + c) \div LimbBase)

BMulSmall(a0, k) ==
    IF k = 0 THEN <<>> ELSE With(a0, LAMBDA a : BMulSmallFrom(a, k, 1, 0))

\* a * LimbBase^n
BShiftLimbs(a0, n) ==
    With(a0, LAMBDA a : IF a = <<>> THEN a ELSE [i \in 1..n |-> 0] \o a)

\* a * (b from limb j up)
RECURSIVE BMulFrom(_, _, _)
BMulFrom(a, b, j) ==
    IF j > Len(b) THEN <<>>
    ELSE BAdd(BMulSmall(a, b[j]), BShiftLimbs(BMulFrom(a, b, j + 1), 1))

BMul(a0, b0) == With2(a0, b0, LAMBDA a, b : BMulFrom(a, b, 1))

BShl(a, n) == BShiftLimbs(BMulSmall(a, 2 ^ (n % LimbBits)), n \div LimbBits)

BShr(a0, n) ==
    With(a0, LAMBDA a :
        IF n \div LimbBits >= Len(a) THEN <<>>
        ELSE BStrip([i \in 1..(Len(a) - n \div LimbBits) |->
                (a[i + n \div LimbBits] \div 2 ^ (n % LimbBits))
                + (BLimb(a, i + 1 + n \div LimbBits) % 2 ^ (n % LimbBits))
                  * 2 ^ (LimbBits - (n % LimbBits))]))

RECURSIVE IntBitLen(_)
IntBitLen(n) == IF n = 0 THEN 0 ELSE 1 + IntBitLen(n \div 2)

BBitLen(a0) ==
    With(a0, LAMBDA a :
        IF a = <<>> THEN 0 ELSE LimbBits * (Len(a) - 1) + IntBitLen(a[Len(a)]))

BOdd(a) == a # <<>> /\ a[1] % 2 = 1

\* the largest q <= qhat with q * d <= r, and r - q * d
RECURSIVE BDivFix(_, _, _)
BDivFix(r, d, qhat) ==
    With(BMulSmall(d, qhat), LAMBDA p :
        IF BCmp(p, r) > 0 THEN BDivFix(r, d, qhat - 1) ELSE <<qhat, BSub(r, p)>>)

\* one digit of long division: <<r * LimbBase \div d, r * LimbBase % d>> for
\* r < d, d of n limbs with its top bit set; the estimate from the top limbs is
\* at most 2 too large
BDivDigit(r0, d) ==
    With(BShiftLimbs(r0, 1), LAMBDA r :
        With((BLimb(r, Len(d) + 1) * LimbBase + BLimb(r, Len(d))) \div d[Len(d)],
             LAMBDA e : BDivFix(r, d, IF e > LimbBase - 1 THEN LimbBase - 1 ELSE e)))

\* k more digits of long division: <<the quotient's limbs, the remainder>>
RECURSIVE BDivDigits(_, _, _, _)
BDivDigits(q, r, d, k) ==
    IF k = 0 THEN <<q, r>>
    ELSE With(BDivDigit(r, d), LAMBDA s : BDivDigits(<<s[1]>> \o q, s[2], d, k - 1))

(***************************************************************************)
(* Non-negative binary64 values: <<m, e>> is m * 2^e with m a 53-bit       *)
(* natural (2^52 <= m < 2^53), or zero.  Every value the program computes  *)
(* is a non-negative normal number far from overflow and underflow.        *)
(***************************************************************************)
MantBits == 50 + 3
FZero == <<<<>>, 0>>

\* q * 2^e for a q of MantBits or MantBits + 1 bits (the latter a power of two)
FPack(q0, e) ==
    With(q0, LAMBDA q :
        IF BBitLen(q) > MantBits THEN <<BShr(q, 1), e + 1>> ELSE <<q, e>>)

\* n * 2^e for n of more than MantBits bits, rounded to nearest, ties to even:
\* g holds one bit more than the mantissa, sticky tells whether bits below it are set
FRoundDown(n, e, sh) ==
    With(BShr(n, sh - 1), LAMBDA g :
        With(BShl(g, sh - 1) # n, LAMBDA sticky :
            With(BShr(g, 1), LAMBDA q :
                FPack(IF BOdd(g) /\ (sticky \/ BOdd(q)) THEN BAdd(q, <<1>>) ELSE q,
                      e + sh))))

\* the binary64 nearest to n * 2^e
FRound(n0, e) ==
    With(n0, LAMBDA n :
        IF n = <<>> THEN FZero
        ELSE With(BBitLen(n), LAMBDA len :
                IF len <= MantBits
                THEN <<BShl(n, MantBits - len), e - (MantBits - len)>>
                ELSE FRoundDown(n, e, len - MantBits)))

\* float(n) for a Python int 0 <= n < 2^31 (exact)
FInt(n) == FRound(BFromInt(n), 0)

FMul(x0, y0) ==
    With2(x0, y0, LAMBDA x, y : FRound(BMul(x[1], y[1]), x[2] + y[2]))

FAdd(x0, y0) ==
    With2(x0, y0, LAMBDA x, y :
        IF x[1] = <<>> THEN y
        ELSE IF y[1] = <<>> THEN x
        ELSE With(IF x[2] < y[2] THEN x[2] ELSE y[2], LAMBDA e :
                FRound(BAdd(BShl(x[1], x[2] - e), BShl(y[1], y[2] - e)), e)))

\* x / y for y # 0: both mantissas are shifted to 4 whole limbs, the quotient is
\* taken to 4 limbs below the point, a sticky bit is appended, and that is rounded
FDivLimbs(r, d, e) ==
    With(IF BCmp(r, d) >= 0 THEN <<(<<1>>), BSub(r, d)>> ELSE <<(<<>>), r>>, LAMBDA s :
        With(BDivDigits(s[1], s[2], d, 4), LAMBDA qr :
            FRound(BAdd(BShl(BStrip(qr[1]), 1), IF qr[2] = <<>> THEN <<>> ELSE <<1>>),
                   e - (4 * LimbBits + 1))))

FDiv(x0, y0) ==
    With2(x0, y0, LAMBDA x, y :
        IF x[1] = <<>> THEN FZero
        ELSE FDivLimbs(BShl(x[1], 4 * LimbBits - MantBits),
                       BShl(y[1], 4 * LimbBits - MantBits), x[2] - y[2]))

\* -1, 0, 1 as x < y, x = y, x > y
FCmp(x0, y0) ==
    With2(x0, y0, LAMBDA x, y :
        IF x[1] = <<>> \/ y[1] = <<>>
        THEN (IF x[1] = y[1] THEN 0 ELSE IF x[1] = <<>> THEN -1 ELSE 1)
        ELSE IF x[2] < y[2] THEN -1
        ELSE IF x[2] > y[2] THEN 1
        ELSE BCmp(x[1], y[1]))

\* the float a decimal literal n/d denotes (the nearest binary64)
Dec(n, d) == FDiv(FInt(n), FInt(d))

(***************************************************************************)
(* Python values and operators.                                            *)
(***************************************************************************)
\* An unbound name, and the two exceptions the calculations can raise, as values
\* no float equals (a zero mantissa with a negative exponent).
None == <<<<>>, -1>>
KeyError == <<<<>>, -2>>
ZeroDivisionError == <<<<>>, -3>>

\* the exception a value stands for, or "none"
Raised(v) ==
    IF v = KeyError THEN "KeyError"
    ELSE IF v = ZeroDivisionError THEN "ZeroDivisionError"
    ELSE "none"

\* a / b on floats
PyDiv(a, b) == IF b = FZero THEN ZeroDivisionError ELSE FDiv(a, b)

\* sum(list): 0 + s[1] + s[2] + ..., left to right (0 + v is v exactly)
RECURSIVE SumFrom(_, _)
SumFrom(s, acc) == IF s = <<>> THEN acc ELSE SumFrom(Tail(s), FAdd(acc, Head(s)))

sum(s) == SumFrom(s, FZero)

(***************************************************************************)
(* The module-level tables, as the literals of lines 7-63.  An int in a    *)
(* rate table (10, 15, 20) meets a float in every expression it appears    *)
(* in, where int * int * float equals float * float * float exactly for    *)
(* these magnitudes.                                                       *)
(***************************************************************************)
MaterialRatesLiteral ==
    [Residential |-> [cement |-> Dec(5, 10), blocks |-> FInt(10), steel |-> Dec(25, 1000),
                      sand |-> Dec(5, 100), granite |-> Dec(3, 100)],
     Commercial  |-> [cement |-> Dec(7, 10), blocks |-> FInt(15), steel |-> Dec(4, 100),
                      sand |-> Dec(7, 100), granite |-> Dec(5, 100)],
     Industrial  |-> [cement |-> Dec(10, 10), blocks |-> FInt(20), steel |-> Dec(6, 100),
                      sand |-> Dec(10, 100), granite |-> Dec(8, 100)]]

ShapeComplexityLiteral ==
    ("Rectangular" :> Dec(10, 10)) @@ ("Square" :> Dec(105, 100))
    @@ ("L-Shaped" :> Dec(115, 100)) @@ ("U-Shaped" :> Dec(12, 10))
    @@ ("Circular" :> Dec(125, 100))

PlantRatesLiteral ==
    [Residential |-> Dec(8, 100), Commercial |-> Dec(12, 100), Industrial |-> Dec(18, 100)]

LaborProductivityRatesLiteral ==
    [Residential |-> [foundation |-> Dec(12, 10), structural |-> Dec(20, 10),
                      finishing |-> Dec(15, 10)],
     Commercial  |-> [foundation |-> Dec(15, 10), structural |-> Dec(25, 10),
                      finishing |-> Dec(20, 10)],
     Industrial  |-> [foundation |-> Dec(20, 10), structural |-> Dec(30, 10),
                      finishing |-> Dec(25, 10)]]

\* EFFICIENCY_FACTORS with the Small and Large crew factors exchanged
EfficiencyFactorsSwapped ==
    [crew_size |-> [Small |-> Dec(11, 10), Medium |-> Dec(10, 10), Large |-> Dec(9, 10)],
     weather   |-> [Good |-> Dec(10, 10), Average |-> Dec(9, 10), Poor |-> Dec(8, 10)]]

EfficiencyFactorsLiteral ==
    [crew_size |-> [Small |-> Dec(9, 10), Medium |-> Dec(10, 10), Large |-> Dec(11, 10)],
     weather   |-> [Good |-> Dec(10, 10), Average |-> Dec(9, 10), Poor |-> Dec(8, 10)]]

RiskFactorsLiteral == [prelim |-> Dec(5, 100), cont |-> Dec(75, 1000), design |-> Dec(2, 100)]

CirculationSpaceLiteral == Dec(20, 100)
StandardWorkHoursLiteral == 8
OverheadProfitLiteral == Dec(15, 100)

(***************************************************************************)
(* The widgets: number_input / slider (min, max, default) and selectbox    *)
(* (options; the first is the default).                                    *)
(***************************************************************************)
LengthInput  == [min |-> 10, max |-> 100, value |-> 20]
BreadthInput == [min |-> 10, max |-> 100, value |-> 15]
StoreysInput == [min |-> 1, max |-> 10, value |-> 2]
CementInput  == [min |-> 9500, max |-> 10500, value |-> 9800]
BlocksInput  == [min |-> 500, max |-> 750, value |-> 600]
SteelInput   == [min |-> 700000, max |-> 1250000, value |-> 850000]
SandInput    == [min |-> 30000, max |-> 50000, value |-> 35000]
GraniteInput == [min |-> 19000, max |-> 40000, value |-> 19500]
LaborRateInput == [min |-> 500, max |-> 3000, value |-> 1000]
\* the worker count with no lower bound above zero
WorkersInputFromZero == [min |-> 0, max |-> 100, value |-> 20]
WorkersInput == [min |-> 10, max |-> 100, value |-> 20]
PermitInput  == [min |-> 1, max |-> 24, value |-> 3]

LocationOptions == <<"Urban", "Suburban", "Rural">>
\* a soil list offering a soil that soil_map does not hold
SoilOptionsWithLoam == <<"Rocky", "Sandy", "Clay", "Loam">>
SoilOptions     == <<"Rocky", "Sandy", "Clay">>
AccessOptions   == <<"Good", "Average", "Poor">>
WeatherOptions  == <<"Good", "Average", "Poor">>

(***************************************************************************)
(* State.                                                                  *)
(***************************************************************************)
VARIABLES
    \* the module globals of lines 7-63 (assigned once, never written again)
    MATERIAL_RATES, SHAPE_COMPLEXITY, PLANT_RATES, LABOR_PRODUCTIVITY_RATES,
    EFFICIENCY_FACTORS, RISK_FACTORS, CIRCULATION_SPACE, STANDARD_WORK_HOURS,
    OVERHEAD_PROFIT,
    \* the values of the four widgets outside the form
    length, breadth, storeys, shape,
    \* the values of the form's widgets as last submitted
    form,
    \* whether the pending or latest run was started by the form's submit button
    submit_button,
    \* "rerun": an interaction has queued a run of the script; "done": it has run;
    \* under CalcSpec, "call": a direct call of one calculation is pending;
    \* "returned": it has returned
    pc,
    \* the script's variables after its latest run (None before it has run)
    current_gfa, est,
    \* the exception that ended the latest run, or "none"
    exception,
    \* a direct call of one of the three calculations, and what it returned
    call, ret

globals == <<MATERIAL_RATES, SHAPE_COMPLEXITY, PLANT_RATES, LABOR_PRODUCTIVITY_RATES,
             EFFICIENCY_FACTORS, RISK_FACTORS, CIRCULATION_SPACE, STANDARD_WORK_HOURS,
             OVERHEAD_PROFIT>>
widgets == <<length, breadth, storeys, shape>>
vars == <<globals, widgets, form, submit_button, pc, current_gfa, est, exception,
          call, ret>>

(***************************************************************************)
(* The three calculations (lines 91-113).                                  *)
(***************************************************************************)
\* calculate_gfa with the circulation allowance applied on top
calculate_gfa_with_circulation(len, bre, sto, shp) ==
    LET base_area == len * bre * sto
    IN  IF shp \notin DOMAIN SHAPE_COMPLEXITY THEN KeyError
        ELSE FMul(FMul(FInt(base_area), SHAPE_COMPLEXITY[shp]),
                  FAdd(FInt(1), CIRCULATION_SPACE))

calculate_gfa(len, bre, sto, shp) ==
    LET base_area == len * bre * sto
    IN  IF shp \notin DOMAIN SHAPE_COMPLEXITY THEN KeyError
        ELSE LET shape_multiplier == SHAPE_COMPLEXITY[shp]
             IN  FMul(FInt(base_area), shape_multiplier)

\* the two dicts calculate_site_difficulty builds on every call
soil_map == [Rocky |-> Dec(15, 10), Sandy |-> Dec(12, 10), Clay |-> Dec(10, 10)]
access_map == [Poor |-> Dec(14, 10), Average |-> Dec(11, 10), Good |-> Dec(10, 10)]

\* calculate_site_difficulty adding the two multipliers instead of multiplying them
calculate_site_difficulty_adding(soil, access) ==
    IF soil \notin DOMAIN soil_map \/ access \notin DOMAIN access_map THEN KeyError
    ELSE FAdd(soil_map[soil], access_map[access])

calculate_site_difficulty(soil, access) ==
    IF soil \notin DOMAIN soil_map \/ access \notin DOMAIN access_map THEN KeyError
    ELSE FMul(soil_map[soil], access_map[access])

\* the crew band with a crew of 30 counted as Large
crew_band_large_from_30(crew_size) ==
    IF 15 <= crew_size /\ crew_size < 30 THEN "Medium"
    ELSE IF crew_size >= 30 THEN "Large"
    ELSE "Small"

\* the key of lines 108-110
crew_band(crew_size) ==
    IF 15 <= crew_size /\ crew_size <= 30 THEN "Medium"
    ELSE IF crew_size > 30 THEN "Large"
    ELSE "Small"

calculate_labor_hours(gfa, building_type, crew_size, weather_condition) ==
    IF building_type \notin DOMAIN LABOR_PRODUCTIVITY_RATES THEN KeyError
    ELSE LET base_hours ==
                 FMul(sum(<<LABOR_PRODUCTIVITY_RATES[building_type].foundation,
                            LABOR_PRODUCTIVITY_RATES[building_type].structural,
                            LABOR_PRODUCTIVITY_RATES[building_type].finishing>>), gfa)
         IN  IF crew_band(crew_size) \notin DOMAIN EFFICIENCY_FACTORS.crew_size
             THEN KeyError
             ELSE LET crew_efficiency == EFFICIENCY_FACTORS.crew_size[crew_band(crew_size)]
                  IN  IF weather_condition \notin DOMAIN EFFICIENCY_FACTORS.weather
                      THEN KeyError
                      ELSE LET weather_efficiency ==
                                   EFFICIENCY_FACTORS.weather[weather_condition]
                           IN  PyDiv(base_hours,
                                     FMul(crew_efficiency, weather_efficiency))

(***************************************************************************)
(* The submit handler (lines 165-283), statement by statement.  env holds  *)
(* the script's variables (None while unbound) and the exception raised so *)
(* far; a statement after one that raised is not executed.                 *)
(***************************************************************************)
NoEstimate ==
    [labor_hours |-> None, labor_productivity |-> None, project_duration |-> None,
     labor_cost |-> None, site_difficulty |-> None, shape_complexity |-> None,
     vertical_complexity |-> None, input_data |-> None, total_cost |-> None,
     material_cost |-> None, plant_cost |-> None, base_cost |-> None,
     risk_components |-> None, fig_main_values |-> None, fig_risk_values |-> None,
     fig_productivity_y |-> None]

\* what model.predict(...)[0] returns: the action RunScript puts a prediction here
Predicted == <<<<>>, -4>>

\* name = v, where computing the float v may have raised
Assign(env, name, v0) ==
    With(v0, LAMBDA v :
        IF Raised(v) # "none" THEN [env EXCEPT !.exception = Raised(v)]
        ELSE [env EXCEPT ![name] = v])

\* cement * MATERIAL_RATES[building_type]['cement'] * current_gfa and its like
MaterialLine(price, rate, gfa) == FMul(FMul(FInt(price), rate), gfa)

\* the material lines with granite left out
material_lines_without_granite(f, gfa) ==
    <<MaterialLine(f.cement, MATERIAL_RATES[f.building_type].cement, gfa),
      MaterialLine(f.blocks, MATERIAL_RATES[f.building_type].blocks, gfa),
      MaterialLine(f.steel, MATERIAL_RATES[f.building_type].steel, gfa),
      MaterialLine(f.sand, MATERIAL_RATES[f.building_type].sand, gfa)>>

material_lines(f, gfa) ==
    <<MaterialLine(f.cement, MATERIAL_RATES[f.building_type].cement, gfa),
      MaterialLine(f.blocks, MATERIAL_RATES[f.building_type].blocks, gfa),
      MaterialLine(f.steel, MATERIAL_RATES[f.building_type].steel, gfa),
      MaterialLine(f.sand, MATERIAL_RATES[f.building_type].sand, gfa),
      MaterialLine(f.granite, MATERIAL_RATES[f.building_type].granite, gfa)>>

\* the row without its Permit_Months column
InputDataWithoutPermit(f, env) ==
    [Length |-> length, Breadth |-> breadth, Storeys |-> storeys, Shape |-> shape,
     Type |-> f.building_type, Location |-> f.location, Soil |-> f.soil,
     Access |-> f.access, Weather |-> f.weather, Cement_Price |-> f.cement,
     Block_Price |-> f.blocks, Steel_Price |-> f.steel, Sand_Price |-> f.sand,
     Granite_Price |-> f.granite, Labor_Rate |-> f.labor_rate,
     Labor_Cost |-> env.labor_cost, Workers |-> f.workers,
     Site_Difficulty |-> env.site_difficulty, Shape_Complexity |-> env.shape_complexity,
     Vertical_Complexity |-> env.vertical_complexity]

\* the DataFrame row of lines 180-202
InputData(f, env) ==
    [Length |-> length, Breadth |-> breadth, Storeys |-> storeys, Shape |-> shape,
     Type |-> f.building_type, Location |-> f.location, Soil |-> f.soil,
     Access |-> f.access, Weather |-> f.weather, Cement_Price |-> f.cement,
     Block_Price |-> f.blocks, Steel_Price |-> f.steel, Sand_Price |-> f.sand,
     Granite_Price |-> f.granite, Labor_Rate |-> f.labor_rate,
     Labor_Cost |-> env.labor_cost, Workers |-> f.workers, Permit_Months |-> f.permit,
     Site_Difficulty |-> env.site_difficulty, Shape_Complexity |-> env.shape_complexity,
     Vertical_Complexity |-> env.vertical_complexity]

\* risk components that compound: each percentage applies to the base cost plus
\* the components before it
RiskComponentsCompounding(base) ==
    With(FMul(base, RISK_FACTORS.cont), LAMBDA cont :
        With(FMul(FAdd(base, cont), RISK_FACTORS.prelim), LAMBDA prelim :
            <<<<"Contingencies", cont>>, <<"Preliminaries", prelim>>,
              <<"Design Risk",
                FMul(FAdd(FAdd(base, cont), prelim), RISK_FACTORS.design)>>>>))

\* the dict of lines 246-250, in insertion order
RiskComponents(base) ==
    <<<<"Contingencies", FMul(base, RISK_FACTORS.cont)>>,
      <<"Preliminaries", FMul(base, RISK_FACTORS.prelim)>>,
      <<"Design Risk", FMul(base, RISK_FACTORS.design)>>>>

\* list(d.values())
Values(d) == [i \in 1..Len(d) |-> d[i][2]]

\* the right-hand sides of the handler's assignments, by the name assigned
labor_productivity(env, f, gfa) == PyDiv(gfa, FMul(env.labor_hours, FInt(f.workers)))

project_duration(env, f) ==
    PyDiv(env.labor_hours, FInt(f.workers * STANDARD_WORK_HOURS))

labor_cost(env, f) ==
    FMul(FMul(env.labor_hours, FInt(f.labor_rate)), FAdd(FInt(1), OVERHEAD_PROFIT))

shape_complexity ==
    IF shape \in DOMAIN SHAPE_COMPLEXITY THEN SHAPE_COMPLEXITY[shape] ELSE KeyError

vertical_complexity == FMul(FInt(storeys), Dec(25, 100))

material_cost(f, gfa) ==
    IF f.building_type \in DOMAIN MATERIAL_RATES
    THEN sum(material_lines(f, gfa)) ELSE KeyError

plant_cost(env, f) ==
    IF f.building_type \in DOMAIN PLANT_RATES
    THEN FMul(FAdd(env.material_cost, env.labor_cost), PLANT_RATES[f.building_type])
    ELSE KeyError

\* the base cost with the plant cost left out
base_cost_without_plant(env) == FAdd(env.material_cost, env.labor_cost)

base_cost(env) == FAdd(FAdd(env.material_cost, env.labor_cost), env.plant_cost)

\* the values=[...] of the cost breakdown chart
fig_main_values(env) ==
    <<env.material_cost, env.labor_cost, env.plant_cost, sum(Values(env.risk_components))>>

\* the y=[...] of the labor distribution chart
fig_productivity_y(f, gfa) ==
    <<FMul(LABOR_PRODUCTIVITY_RATES[f.building_type].foundation, gfa),
      FMul(LABOR_PRODUCTIVITY_RATES[f.building_type].structural, gfa),
      FMul(LABOR_PRODUCTIVITY_RATES[f.building_type].finishing, gfa)>>

\* the statement that starts at the given line, executed in env; f is the form as
\* submitted and gfa is current_gfa
Exec(line, env, f, gfa) ==
    CASE line = 167 ->
           Assign(env, "labor_hours",
                  calculate_labor_hours(gfa, f.building_type, f.workers, f.weather))
      [] line = 168 -> Assign(env, "labor_productivity", labor_productivity(env, f, gfa))
      [] line = 169 -> Assign(env, "project_duration", project_duration(env, f))
      [] line = 172 -> Assign(env, "labor_cost", labor_cost(env, f))
      [] line = 175 ->
           Assign(env, "site_difficulty", calculate_site_difficulty(f.soil, f.access))
      [] line = 176 -> Assign(env, "shape_complexity", shape_complexity)
      [] line = 177 -> Assign(env, "vertical_complexity", vertical_complexity)
      [] line = 180 -> [env EXCEPT !.input_data = InputData(f, env)]
      [] line = 206 -> [env EXCEPT !.total_cost = Predicted]
      [] line = 234 -> Assign(env, "material_cost", material_cost(f, gfa))
      [] line = 242 -> Assign(env, "plant_cost", plant_cost(env, f))
      [] line = 243 -> Assign(env, "base_cost", base_cost(env))
      [] line = 246 -> [env EXCEPT !.risk_components = RiskComponents(env.base_cost)]
      [] line = 255 -> [env EXCEPT !.fig_main_values = fig_main_values(env)]
      [] line = 264 -> [env EXCEPT !.fig_risk_values = Values(env.risk_components)]
      [] line = 273 -> [env EXCEPT !.fig_productivity_y = fig_productivity_y(f, gfa)]

HandlerLines == <<167, 168, 169, 172, 175, 176, 177, 180, 206, 234, 242, 243, 246,
                  255, 264, 273>>

\* the statements from the i-th on, in order, until one raises
RECURSIVE ExecFrom(_, _, _, _)
ExecFrom(env0, i, f, gfa) ==
    IF i > Len(HandlerLines) THEN env0
    ELSE With(env0, LAMBDA env :
            IF env.exception # "none" THEN env
            ELSE ExecFrom(Exec(HandlerLines[i], env, f, gfa), i + 1, f, gfa))

\* the body of `if submit_button:`
SubmitHandler(f, gfa) ==
    ExecFrom([k \in DOMAIN NoEstimate \cup {"exception"} |->
                 IF k = "exception" THEN "none" ELSE None], 1, f, gfa)

(***************************************************************************)
(* What the user can enter.  A number_input admits every integer from min  *)
(* to max; the model enters min, the default and max, and for the worker   *)
(* count also the sizes on either side of the crew bands of lines 108-110. *)
(***************************************************************************)
Samples(w) == {w.min, w.value, w.max}

Range(s) == {s[i] : i \in 1..Len(s)}

CrewBandEdges == {15 - 1, 15, 30, 30 + 1}

WorkersSamples ==
    Samples(WorkersInput)
    \cup {n \in CrewBandEdges : WorkersInput.min <= n /\ n <= WorkersInput.max}

\* list(SHAPE_COMPLEXITY.keys()) and list(MATERIAL_RATES.keys())
ShapeOptions == DOMAIN SHAPE_COMPLEXITY
BuildingTypeOptions == DOMAIN MATERIAL_RATES

FormChoices ==
    [building_type |-> BuildingTypeOptions, location |-> Range(LocationOptions),
     soil |-> Range(SoilOptions), access |-> Range(AccessOptions),
     weather |-> Range(WeatherOptions), cement |-> Samples(CementInput),
     blocks |-> Samples(BlocksInput), steel |-> Samples(SteelInput),
     sand |-> Samples(SandInput), granite |-> Samples(GraniteInput),
     labor_rate |-> Samples(LaborRateInput), workers |-> WorkersSamples,
     permit |-> Samples(PermitInput)]

\* every widget at its default: a selectbox shows its first option
DefaultShape == "Rectangular"
DefaultForm ==
    [building_type |-> "Residential", location |-> LocationOptions[1],
     soil |-> SoilOptions[1], access |-> AccessOptions[1], weather |-> WeatherOptions[1],
     cement |-> CementInput.value, blocks |-> BlocksInput.value, steel |-> SteelInput.value,
     sand |-> SandInput.value, granite |-> GraniteInput.value,
     labor_rate |-> LaborRateInput.value, workers |-> WorkersInput.value,
     permit |-> PermitInput.value]

\* The session is explored up to MaxChanged widgets away from their defaults.
MaxChanged == 2

Changed(len, bre, sto, shp, f) ==
    Cardinality({k \in DOMAIN f : f[k] # DefaultForm[k]})
    + (IF len # LengthInput.value THEN 1 ELSE 0)
    + (IF bre # BreadthInput.value THEN 1 ELSE 0)
    + (IF sto # StoreysInput.value THEN 1 ELSE 0)
    + (IF shp # DefaultShape THEN 1 ELSE 0)

\* The regression model is an opaque artifact: its prediction is any float.
Predictions == {FInt(25000000), FInt(40000000)}

(***************************************************************************)
(* The session.                                                            *)
(***************************************************************************)
NoCall == [fn |-> "none", args |-> <<>>]

LoadGlobals ==
    /\ MATERIAL_RATES = MaterialRatesLiteral
    /\ SHAPE_COMPLEXITY = ShapeComplexityLiteral
    /\ PLANT_RATES = PlantRatesLiteral
    /\ LABOR_PRODUCTIVITY_RATES = LaborProductivityRatesLiteral
    /\ EFFICIENCY_FACTORS = EfficiencyFactorsLiteral
    /\ RISK_FACTORS = RiskFactorsLiteral
    /\ CIRCULATION_SPACE = CirculationSpaceLiteral
    /\ STANDARD_WORK_HOURS = StandardWorkHoursLiteral
    /\ OVERHEAD_PROFIT = OverheadProfitLiteral

\* The page is opened: every widget at its default, the first run queued.
Init ==
    /\ LoadGlobals
    /\ length = LengthInput.value
    /\ breadth = BreadthInput.value
    /\ storeys = StoreysInput.value
    /\ shape = DefaultShape
    /\ form = DefaultForm
    /\ submit_button = FALSE
    /\ pc = "rerun"
    /\ current_gfa = None
    /\ est = NoEstimate
    /\ exception = "none"
    /\ call = NoCall
    /\ ret = None

\* An interaction queues a run of the script, which starts from no variables.
StartRun(submitted) ==
    /\ pc' = "rerun"
    /\ submit_button' = submitted
    /\ current_gfa' = None
    /\ est' = NoEstimate
    /\ exception' = "none"
    /\ UNCHANGED <<globals, call, ret>>

\* A widget outside the form is changed: the script re-runs at once.
ChangeLength ==
    /\ pc = "done"
    /\ \E v \in Samples(LengthInput) \ {length} :
          /\ Changed(v, breadth, storeys, shape, form) <= MaxChanged
          /\ length' = v
    /\ StartRun(FALSE)
    /\ UNCHANGED <<breadth, storeys, shape, form>>

ChangeBreadth ==
    /\ pc = "done"
    /\ \E v \in Samples(BreadthInput) \ {breadth} :
          /\ Changed(length, v, storeys, shape, form) <= MaxChanged
          /\ breadth' = v
    /\ StartRun(FALSE)
    /\ UNCHANGED <<length, storeys, shape, form>>

ChangeStoreys ==
    /\ pc = "done"
    /\ \E v \in Samples(StoreysInput) \ {storeys} :
          /\ Changed(length, breadth, v, shape, form) <= MaxChanged
          /\ storeys' = v
    /\ StartRun(FALSE)
    /\ UNCHANGED <<length, breadth, shape, form>>

ChangeShape ==
    /\ pc = "done"
    /\ \E v \in ShapeOptions \ {shape} :
          /\ Changed(length, breadth, storeys, v, form) <= MaxChanged
          /\ shape' = v
    /\ StartRun(FALSE)
    /\ UNCHANGED <<length, breadth, storeys, form>>

\* The form is submitted, with at most one of its widgets edited since the last
\* submission: the edited values reach the script, which re-runs.
SubmitForm ==
    /\ pc = "done"
    /\ \E k \in DOMAIN form : \E v \in FormChoices[k] :
          LET f == [form EXCEPT ![k] = v]
          IN  /\ Changed(length, breadth, storeys, shape, f) <= MaxChanged
              /\ form' = f
    /\ StartRun(TRUE)
    /\ UNCHANGED widgets

\* One run of the script, top to bottom: line 128, then the handler if the run was
\* started by the submit button.
RunScript ==
    /\ pc = "rerun"
    /\ pc' = "done"
    /\ \E gfa \in {calculate_gfa(length, breadth, storeys, shape)} :
          IF Raised(gfa) # "none"
          THEN /\ current_gfa' = None
               /\ est' = NoEstimate
               /\ exception' = Raised(gfa)
          ELSE /\ current_gfa' = gfa
               /\ IF submit_button
                  THEN \E env \in {SubmitHandler(form, gfa)} :
                          /\ exception' = env.exception
                          /\ \E t \in Predictions :
                                est' = [k \in DOMAIN NoEstimate |->
                                           IF k = "total_cost" /\ env[k] = Predicted
                                           THEN t ELSE env[k]]
                  ELSE /\ est' = NoEstimate
                       /\ exception' = "none"
    /\ UNCHANGED <<globals, widgets, form, submit_button, call, ret>>

Next ==
    \/ ChangeLength
    \/ ChangeBreadth
    \/ ChangeStoreys
    \/ ChangeShape
    \/ SubmitForm
    \/ RunScript

Spec == Init /\ [][Next]_vars

(***************************************************************************)
(* The three calculations called directly, on arguments the form admits    *)
(* and on arguments it does not (a key no table holds, a crew size outside *)
(* the widget's range, an area of zero).                                   *)
(***************************************************************************)
ForeignKeys == {"Hexagonal"}

\* crew sizes 0..MaxCrew reach every crew band and both band edges
MaxCrew == 32
CrewSizes == 0..MaxCrew

AreaSamples == {FZero, FInt(100), FInt(600), Dec(6300001, 10000)}

GfaCalls ==
    {[fn |-> "calculate_gfa", args |-> <<len, bre, sto, shp>>] :
        len \in Samples(LengthInput), bre \in Samples(BreadthInput),
        sto \in Samples(StoreysInput),
        shp \in DOMAIN ShapeComplexityLiteral \cup ForeignKeys}

SiteCalls ==
    {[fn |-> "calculate_site_difficulty", args |-> <<soil, access>>] :
        soil \in Range(SoilOptions) \cup ForeignKeys,
        access \in Range(AccessOptions) \cup ForeignKeys}

LaborCalls ==
    {[fn |-> "calculate_labor_hours", args |-> <<gfa, building_type, crew_size, weather>>] :
        gfa \in AreaSamples,
        building_type \in DOMAIN LaborProductivityRatesLiteral \cup ForeignKeys,
        crew_size \in CrewSizes,
        weather \in Range(WeatherOptions) \cup ForeignKeys}

\* The module is loaded and one call is about to be made.
InitCalc ==
    /\ LoadGlobals
    /\ length = LengthInput.value
    /\ breadth = BreadthInput.value
    /\ storeys = StoreysInput.value
    /\ shape = DefaultShape
    /\ form = DefaultForm
    /\ submit_button = FALSE
    /\ pc = "call"
    /\ current_gfa = None
    /\ est = NoEstimate
    /\ exception = "none"
    /\ call \in GfaCalls \cup SiteCalls \cup LaborCalls
    /\ ret = None

\* The call returns (or raises): nothing but the result is written.
Return(v) ==
    /\ ret' = v
    /\ pc' = "returned"
    /\ UNCHANGED <<globals, widgets, form, submit_button, current_gfa, est, exception,
                   call>>

ApplyGfa ==
    /\ pc = "call"
    /\ call.fn = "calculate_gfa"
    /\ Return(calculate_gfa(call.args[1], call.args[2], call.args[3], call.args[4]))

ApplySite ==
    /\ pc = "call"
    /\ call.fn = "calculate_site_difficulty"
    /\ Return(calculate_site_difficulty(call.args[1], call.args[2]))

ApplyLabor ==
    /\ pc = "call"
    /\ call.fn = "calculate_labor_hours"
    /\ Return(calculate_labor_hours(call.args[1], call.args[2], call.args[3],
                                    call.args[4]))

NextCalc ==
    \/ ApplyGfa
    \/ ApplySite
    \/ ApplyLabor

CalcSpec == InitCalc /\ [][NextCalc]_vars

(***************************************************************************)
(* Properties.                                                             *)
(***************************************************************************)
\* v is a float, not an unbound name or an exception
IsFloat(v) == v[1] # <<>> \/ v[2] = 0

\* 1 + 2^-50: two floats within this factor of each other differ by rounding only
RoundingFactor == FAdd(FInt(1), FDiv(FInt(1), FMul(FInt(2 ^ 25), FInt(2 ^ 25))))

Close(x, y) ==
    /\ FCmp(x, FMul(y, RoundingFactor)) <= 0
    /\ FCmp(y, FMul(x, RoundingFactor)) <= 0

\* x is the float next below y
NextBelow(x, y) == x[2] = y[2] /\ BAdd(x[1], <<1>>) = y[1]

\* an estimate request has run to its end
Estimated == pc = "done" /\ submit_button /\ exception = "none"

\* the named calculation has returned a value
Returned(fn) == pc = "returned" /\ call.fn = fn /\ Raised(ret) = "none"

\* C1: for every length, breadth, storey count and shape the form admits,
\* calculate_gfa returns the product length * breadth * storeys *
\* SHAPE_COMPLEXITY[shape] and nothing else (no rounding step, no circulation
\* allowance); length 20, breadth 15, 2 storeys, Rectangular give 600.
C1_GfaIsTheProduct ==
    Returned("calculate_gfa") =>
        /\ ret = FMul(FMul(FMul(FInt(call.args[1]), FInt(call.args[2])),
                           FInt(call.args[3])),
                      SHAPE_COMPLEXITY[call.args[4]])
        /\ (call.args = <<20, 15, 2, "Rectangular">> => ret = FInt(600))

C1_Witness ==
    /\ Returned("calculate_gfa")
    /\ call.args = <<20, 15, 2, "Rectangular">>
    /\ ret = FInt(600)

\* C2: for every area above zero, building type and weather, the labor hours of a
\* crew of 15 are strictly below those of a crew of 14, and those of a crew of 31
\* strictly below those of a crew of 30.
C2_HoursDropAtBandEdges ==
    (/\ Returned("calculate_labor_hours")
     /\ FCmp(call.args[1], FZero) > 0
     /\ call.args[3] \in {15, 30 + 1}) =>
        FCmp(ret, calculate_labor_hours(call.args[1], call.args[2], call.args[3] - 1,
                                        call.args[4])) < 0

C2_Witness ==
    /\ Returned("calculate_labor_hours")
    /\ call.args = <<FInt(600), "Residential", 15, "Good">>
    /\ ret = FInt(2820)
    /\ FCmp(ret, calculate_labor_hours(FInt(600), "Residential", 15 - 1, "Good")) < 0

\* the efficiencies as the documentation tabulates them
CrewEfficiency(n) ==
    IF n <= 15 - 1 THEN Dec(9, 10) ELSE IF n <= 30 THEN Dec(10, 10) ELSE Dec(11, 10)

WeatherEfficiency(w) ==
    CASE w = "Good" -> Dec(10, 10) [] w = "Average" -> Dec(9, 10) [] w = "Poor" -> Dec(8, 10)

\* C3: for every building type, area, integer crew size and weather,
\* calculate_labor_hours returns (foundation + structural + finishing rate of the
\* type) * area / (crew efficiency * weather efficiency), the crew efficiency
\* being 0.9 up to 14, 1.0 from 15 to 30 and 1.1 above 30, the weather
\* efficiency Good 1.0, Average 0.9, Poor 0.8.
C3_LaborHoursFormula ==
    Returned("calculate_labor_hours") =>
        LET rates == LABOR_PRODUCTIVITY_RATES[call.args[2]]
        IN  ret = FDiv(FMul(FAdd(FAdd(rates.foundation, rates.structural),
                                 rates.finishing),
                            call.args[1]),
                       FMul(CrewEfficiency(call.args[3]),
                            WeatherEfficiency(call.args[4])))

C3_Witness ==
    /\ Returned("calculate_labor_hours")
    /\ call.args = <<FInt(600), "Commercial", 30 + 1, "Poor">>
    /\ ret = FDiv(FMul(FInt(6), FInt(600)), FMul(Dec(11, 10), Dec(8, 10)))

\* C4: in every estimate request the material, labor and plant cost are each
\* non-negative, and the base cost is material cost + labor cost + plant cost.
C4_CostBreakdown ==
    Estimated =>
        /\ \A c \in {est.material_cost, est.labor_cost, est.plant_cost} :
              IsFloat(c) /\ FCmp(c, FZero) >= 0
        /\ est.base_cost =
              FAdd(FAdd(est.material_cost, est.labor_cost), est.plant_cost)

C4_Witness ==
    /\ Estimated
    /\ form = DefaultForm
    /\ est.plant_cost = FInt(1914720)
    /\ est.base_cost = FInt(25848720)

\* the risk components add up to exactly base cost * 0.145
RiskSumIsExact ==
    sum(Values(est.risk_components)) = FMul(est.base_cost, Dec(145, 1000))

\* C5 (amended): in every estimate request each risk component is the base cost
\* times its own percentage (0.075, 0.05, 0.02), computed from the base cost
\* alone, and their sum equals base cost * 0.145 up to floating-point rounding
\* (not always to the last bit).
C5_RiskComponents ==
    Estimated =>
        /\ est.risk_components =
              <<<<"Contingencies", FMul(est.base_cost, Dec(75, 1000))>>,
                <<"Preliminaries", FMul(est.base_cost, Dec(5, 100))>>,
                <<"Design Risk", FMul(est.base_cost, Dec(2, 100))>>>>
        /\ Close(sum(Values(est.risk_components)), FMul(est.base_cost, Dec(145, 1000)))

C5_Witness == Estimated /\ breadth = BreadthInput.min /\ ~RiskSumIsExact

\* C5 as stated: the sum of the risk components equals base cost * 0.145.
C5_AsStated == Estimated => RiskSumIsExact

\* unit price * MATERIAL_RATES[building type][material] * gross floor area
ExpectedLine(material) ==
    FMul(FMul(FInt(form[material]), MATERIAL_RATES[form.building_type][material]),
         current_gfa)

\* C6: in every estimate request the material cost is the sum over cement,
\* blocks, steel, sand and granite of unit price * the material's own rate for the
\* building type * gross floor area; Residential, a cement price of 9800 and an
\* area of 600 give a cement line of 2,940,000.
C6_MaterialCost ==
    Estimated =>
        /\ est.material_cost =
              FAdd(FAdd(FAdd(FAdd(ExpectedLine("cement"), ExpectedLine("blocks")),
                             ExpectedLine("steel")), ExpectedLine("sand")),
                   ExpectedLine("granite"))
        /\ (/\ form.building_type = "Residential"
            /\ form.cement = 9800
            /\ current_gfa = FInt(600)) =>
              material_lines(form, current_gfa)[1] = FInt(2940000)

C6_Witness ==
    /\ Estimated
    /\ form = DefaultForm
    /\ current_gfa = FInt(600)
    /\ est.material_cost = FInt(20691000)

InputFields ==
    {"Length", "Breadth", "Storeys", "Shape", "Type", "Location", "Soil", "Access",
     "Weather", "Cement_Price", "Block_Price", "Steel_Price", "Sand_Price",
     "Granite_Price", "Labor_Rate", "Labor_Cost", "Workers", "Permit_Months",
     "Site_Difficulty", "Shape_Complexity", "Vertical_Complexity"}

\* C7 (amended): the feature record of an estimate request has the same 21
\* named fields on every request: geometry, the site and weather categories, the
\* prices, the labor rate and computed labor cost, the worker count, the permit
\* duration and the three complexity factors.
C7_InputSchema ==
    Estimated =>
        /\ DOMAIN est.input_data = InputFields
        /\ Cardinality(DOMAIN est.input_data) = 20 + 1

C7_Witness ==
    /\ Estimated
    /\ form.building_type = "Industrial"
    /\ Cardinality(DOMAIN est.input_data) = 20 + 1

\* C7 as stated: the feature record has 20 named fields.
C7_AsStated == Estimated => Cardinality(DOMAIN est.input_data) = 20

\* the multipliers as the documentation tabulates them
SoilMultiplier == [Rocky |-> Dec(15, 10), Sandy |-> Dec(12, 10), Clay |-> Dec(10, 10)]
AccessMultiplier == [Poor |-> Dec(14, 10), Average |-> Dec(11, 10), Good |-> Dec(10, 10)]

\* C8 (amended): the site difficulty factor is the product of the soil
\* multiplier (Rocky 1.5, Sandy 1.2, Clay 1.0) and the access multiplier (Poor
\* 1.4, Average 1.1, Good 1.0) and of nothing else; Rocky with Poor gives
\* 2.0999999999999996, the float next below 2.1.
C8_SiteDifficulty ==
    Returned("calculate_site_difficulty") =>
        /\ ret = FMul(SoilMultiplier[call.args[1]], AccessMultiplier[call.args[2]])
        /\ (call.args = <<"Rocky", "Poor">> => NextBelow(ret, Dec(21, 10)))

C8_Witness ==
    /\ Returned("calculate_site_difficulty")
    /\ call.args = <<"Rocky", "Poor">>
    /\ ret # Dec(21, 10)

\* C8 as stated: Rocky with Poor gives 2.1.
C8_AsStated ==
    (Returned("calculate_site_difficulty") /\ call.args = <<"Rocky", "Poor">>) =>
        ret = Dec(21, 10)

\* C9: every shape, building type, soil, access and weather the form offers, and
\* every crew band, is a key of each table it is looked up in, so no run of the
\* script ends in a KeyError; a key outside a table makes the lookup raise
\* KeyError, with no fallback value.
C9_NoMissingKey ==
    /\ ShapeOptions \subseteq DOMAIN SHAPE_COMPLEXITY
    /\ BuildingTypeOptions \subseteq
          (DOMAIN MATERIAL_RATES \cap DOMAIN PLANT_RATES
           \cap DOMAIN LABOR_PRODUCTIVITY_RATES)
    /\ Range(SoilOptions) \subseteq DOMAIN soil_map
    /\ Range(AccessOptions) \subseteq DOMAIN access_map
    /\ Range(WeatherOptions) \subseteq DOMAIN EFFICIENCY_FACTORS.weather
    /\ {crew_band(n) : n \in WorkersInput.min..WorkersInput.max}
          \subseteq DOMAIN EFFICIENCY_FACTORS.crew_size
    /\ exception # "KeyError"
    /\ \A k \in ForeignKeys :
          /\ calculate_gfa(length, breadth, storeys, k) = KeyError
          /\ calculate_site_difficulty(k, form.access) = KeyError
          /\ calculate_site_difficulty(form.soil, k) = KeyError
          /\ calculate_labor_hours(current_gfa, k, form.workers, form.weather) = KeyError
          /\ calculate_labor_hours(current_gfa, form.building_type, form.workers, k)
                = KeyError

C9_Witness ==
    /\ Estimated
    /\ form.access = "Poor"
    /\ IsFloat(est.site_difficulty)

NumberInputs ==
    {LengthInput, BreadthInput, StoreysInput, CementInput, BlocksInput, SteelInput,
     SandInput, GraniteInput, LaborRateInput, WorkersInput, PermitInput}

\* C10: every numeric input within its widget's bounds is positive, and the
\* three divisors of an estimate request (crew efficiency * weather efficiency,
\* labor_hours * workers, workers * STANDARD_WORK_HOURS) are non-zero, so no run
\* of the script ends in a ZeroDivisionError.
C10_NoDivisionByZero ==
    /\ \A w \in NumberInputs : w.min > 0
    /\ \A n \in {length, breadth, storeys, form.cement, form.blocks, form.steel,
                 form.sand, form.granite, form.labor_rate, form.workers, form.permit} :
          n > 0
    /\ exception # "ZeroDivisionError"
    /\ Estimated =>
          /\ FMul(EFFICIENCY_FACTORS.crew_size[crew_band(form.workers)],
                  EFFICIENCY_FACTORS.weather[form.weather]) # FZero
          /\ FMul(est.labor_hours, FInt(form.workers)) # FZero
          /\ form.workers * STANDARD_WORK_HOURS # 0
          /\ IsFloat(est.labor_productivity)
          /\ IsFloat(est.project_duration)

C10_Witness ==
    /\ Estimated
    /\ form.workers = WorkersInput.min
    /\ IsFloat(est.labor_productivity)
    /\ IsFloat(est.project_duration)

=============================================================================
